---- MODULE Spec2Model ----
(***************************************************************************)
(* Model of the recrafter crawl engine (src/recrafter/crawler.py) together *)
(* with the helpers it relies on (utils.py, models.py, storage.py).        *)
(*                                                                         *)
(* crawl() runs a single coroutine: every recursive _crawl_page call is    *)
(* awaited, so the whole traversal is one chain of frames, kept in `stack` *)
(* (the last element is the running frame, the others are suspended in     *)
(* `await self._crawl_page(...)` at line 135 and still hold their permit). *)
(***************************************************************************)
EXTENDS Integers, Sequences, FiniteSets, TLC

VARIABLES
    config,        \* CrawlerConfig: max_depth, max_concurrent, delay, max_retries
    site,          \* the web site being crawled (name of a link graph)
    crawlPc,       \* position of crawl(): "init", "traversing", "returned", "raised"
    stack,         \* chain of _crawl_page frames
    visited_urls,  \* CrawlerEngine.visited_urls
    semaphore,     \* free permits of CrawlerEngine.semaphore
    pages,         \* SiteMap.pages
    errors,        \* CrawlResult.errors
    warnings,      \* CrawlResult.warnings
    completed_at,  \* CrawlResult.completed_at is set
    statistics,    \* CrawlResult.statistics
    fetches,       \* log of the page requests issued through session.get
    sleeps,        \* number of pacing sleeps taken so far
    asset_log,     \* log of the asset downloads attempted by _download_asset
    call           \* a call of one of the pure functions: its arguments and,
                   \* once it has returned, its result

vars == <<config, site, crawlPc, stack, visited_urls, semaphore, pages, errors,
          warnings, completed_at, statistics, fetches, sleeps, asset_log, call>>

\* ------------------------------------------------------------------ bounds
MaxDepthBound == 3
MaxConcurrentBound == 3
MaxCount == 2
MaxPages == 3

\* -------------------------------------------------------------------- URLs
\* A URL string is kept as its parts; "" is an absent part.
Url(scheme, host, path, frag) ==
    [scheme |-> scheme, host |-> host, path |-> path, frag |-> frag]

\* An href attribute value as written in a document.
\*   abs      http://host/path#frag        rel      /path#frag
\*   protorel //host/path#frag             fragonly #frag
\*   mailto   mailto:path                  empty    ""
\*   ABS      HTTP://host/path#frag (the scheme not in lower case)
Href(kind, host, path, frag) ==
    [kind |-> kind, host |-> host, path |-> path, frag |-> frag]

\* str.lower() on the host names that occur.
Lower(h) == IF h = "EX.com" THEN "ex.com" ELSE h

\* urlparse(...).scheme: the scheme in lower case
LowerScheme(scheme) == IF scheme = "HTTP" THEN "http" ELSE scheme

\* urllib.parse.urljoin(base, href) for an href that does not start with a
\* lower-case http(s) scheme; the scheme of the result is in lower case.
UrlJoin(base, href) ==
    IF href.kind = "mailto"
    THEN Url("mailto", "", href.path, "")
    ELSE IF href.kind = "ABS"
    THEN Url(LowerScheme("HTTP"), href.host, href.path, href.frag)
    ELSE Url(LowerScheme(base.scheme), base.host, href.path, href.frag)

normalize_url(href, base) ==
    IF href.kind = "empty" THEN base
    ELSE IF href.kind = "fragonly" THEN base
    ELSE IF href.kind = "protorel"
         THEN Url(LowerScheme(base.scheme), href.host, href.path, href.frag)
    ELSE IF href.kind # "abs" THEN UrlJoin(base, href)
    ELSE Url("http", href.host, href.path, href.frag)

\* A URL string read as the `url` argument of normalize_url.
AsHref(u) ==
    IF u.scheme = "http" THEN Href("abs", u.host, u.path, u.frag)
    ELSE IF u.scheme = "HTTP" THEN Href("ABS", u.host, u.path, u.frag)
    ELSE IF u.scheme = "mailto" THEN Href("mailto", "", u.path, "")
    ELSE IF u.host # "" THEN Href("protorel", u.host, u.path, u.frag)
    ELSE IF u.path # "" THEN Href("rel", "", u.path, u.frag)
    ELSE IF u.frag # "" THEN Href("fragonly", "", "", u.frag)
    ELSE Href("empty", "", "", "")

is_valid_url(u) == u.scheme # "" /\ u.host # ""

\* str.endswith("." + base) on the host names that occur
EndsWithDot(h, base) == h = "sub.ex.com" /\ base = "ex.com"

\* is_same_domain called with include_subdomains=True
is_same_domain_IncludeSubdomains(u, base_domain) ==
    \/ Lower(u.host) = Lower(base_domain)
    \/ EndsWithDot(Lower(u.host), Lower(base_domain))

\* include_subdomains keeps its default False at the only call (crawler.py:200)
is_same_domain(u, base_domain) == Lower(u.host) = Lower(base_domain)

\* Page.domain
Domain(u) == u.host

\* The canonical URL of the specification: absolute form, fragment removed.
Canonical(u) == Url(u.scheme, u.host, u.path, "")

\* ------------------------------------------------------------------- sites
StartUrl == Url("http", "ex.com", "/", "")

Rel(path) == Href("rel", "", path, "")

\* The <a href> values of the document served at `path`, in document order.
SiteLinks(s, path) ==
    CASE s = "chain" ->
            (CASE path = "/"  -> <<Rel("/b")>>
               [] path = "/b" -> <<Rel("/c")>>
               [] path = "/c" -> <<Rel("/d")>>
               [] OTHER -> <<>>)
      [] s = "cycle" ->
            (CASE path = "/"  -> <<Rel("/b")>>
               [] path = "/b" -> <<Href("abs", "ex.com", "/", ""), Rel("/b")>>
               [] OTHER -> <<>>)
      [] s = "diamond" ->
            (CASE path = "/"  -> <<Rel("/b"), Rel("/c")>>
               [] path = "/b" -> <<Rel("/c")>>
               [] path = "/c" -> <<Rel("/d")>>
               [] OTHER -> <<>>)
      [] s = "mixed" ->
            (CASE path = "/"  -> <<Href("fragonly", "", "", "top"),
                                   Href("rel", "", "/x", "a"),
                                   Href("mailto", "", "me", ""),
                                   Href("abs", "other.org", "/", ""),
                                   Href("abs", "sub.ex.com", "/", ""),
                                   Href("rel", "", "/x", "b"),
                                   Href("protorel", "EX.com", "/b", "")>>
               [] path = "/x" -> <<Href("fragonly", "", "", "a")>>
               [] OTHER -> <<>>)
      [] OTHER -> <<>>

Sites == {"chain", "cycle", "diamond", "mixed"}

\* The src/href values of the asset tags (img, link, script, ...) of the
\* document served at `path`, in the order of lines 210-220.
SiteAssets(s, path) ==
    CASE s = "diamond" /\ path = "/c" -> <<Rel("/logo.png")>>
      [] OTHER -> <<>>

\* ------------------------------------------------------------ HTTP replies
Html200 == [status |-> 200, ctype |-> "text/html", raises |-> FALSE]

Responses ==
    { Html200,
      [status |-> 404, ctype |-> "text/html", raises |-> FALSE],
      [status |-> 204, ctype |-> "text/html", raises |-> FALSE],
      [status |-> 200, ctype |-> "application/pdf", raises |-> FALSE],
      [status |-> 0, ctype |-> "", raises |-> TRUE] }


\* -------------------------------------------------------------- the crawl
\* The valid crawler configurations (Config.validate, config.py 115-127);
\* max_retries is declared (config.py 21) and read nowhere in the crawler;
\* save_assets is StorageConfig.save_assets (config.py 28).
Configs ==
    [max_depth : 1..MaxDepthBound, max_concurrent : 1..MaxConcurrentBound,
     delay : {0, 1}, max_retries : {0, 3}, save_assets : BOOLEAN]

\* no pure function is being called
NoCall == [op |-> "none", args |-> <<>>, out |-> <<>>]

NoStatistics == [total_pages |-> 0, total_links |-> 0, errors |-> 0, warnings |-> 0]

\* crawl() has not been called
NotStarted ==
    /\ crawlPc = "init"
    /\ stack = <<>>
    /\ visited_urls = {}
    /\ semaphore = config.max_concurrent
    /\ pages = <<>>
    /\ errors = <<>>
    /\ warnings = <<>>
    /\ completed_at = FALSE
    /\ statistics = NoStatistics
    /\ fetches = <<>>
    /\ sleeps = 0
    /\ asset_log = <<>>

Init ==
    /\ config \in Configs
    /\ site \in Sites
    /\ NotStarted
    /\ call = NoCall

\* A _crawl_page frame: its arguments, its position, the local `page` (<<>>
\* until downloaded), where that Page sits in site_map.pages (0 until added),
\* the local `links`, the position of the loop at lines 134-135, the local
\* `assets` and the position of the loop at lines 115-116.
Frame(url, depth) ==
    [url |-> url, depth |-> depth, pc |-> "entry", page |-> <<>>, at |-> 0,
     links |-> <<>>, idx |-> 1, assets |-> <<>>, aidx |-> 1]

Running == stack[Len(stack)]
AtPc(pc) == stack # <<>> /\ Running.pc = pc
Continue(frame) == [stack EXCEPT ![Len(stack)] = frame]
Return == SubSeq(stack, 1, Len(stack) - 1)

\* result.add_error("Error crawling {url}: ...") of the handler at lines 141-143
CrawlError(url) == [kind |-> "Error crawling", url |-> url]

\* crawl(), lines 55-72: create the result, the output directory, and call
\* _crawl_page(start_url, 0). A failing ensure_output_directory() propagates.
Crawl ==
    /\ crawlPc = "init"
    /\ \E dir_ok \in BOOLEAN :
          IF dir_ok
          THEN /\ crawlPc' = "traversing"
               /\ stack' = <<Frame(StartUrl, 0)>>
          ELSE /\ crawlPc' = "raised"
               /\ stack' = stack
    /\ UNCHANGED <<call, asset_log, config, site, visited_urls, semaphore, pages, errors, warnings,
                   completed_at, statistics, fetches, sleeps>>

AlreadyVisited_Never(url) == FALSE

\* line 87
AlreadyVisited(url) == url \in visited_urls

\* a _crawl_page that would record the URL before the depth check
CrawlPageEntry_RecordsBeforeDepthCheck ==
    /\ AtPc("entry")
    /\ IF AlreadyVisited(Running.url)
       THEN stack' = Return /\ visited_urls' = visited_urls
       ELSE /\ visited_urls' = visited_urls \cup {Running.url}
            /\ stack' = IF Running.depth > config.max_depth
                         THEN Return
                         ELSE Continue([Running EXCEPT !.pc = "acquire"])
    /\ UNCHANGED <<call, asset_log, config, site, crawlPc, semaphore, pages, errors, warnings,
                   completed_at, statistics, fetches, sleeps>>

\* _crawl_page, lines 84-90: the depth check, the visited check, the admission.
CrawlPageEntry ==
    /\ AtPc("entry")
    /\ IF Running.depth > config.max_depth
       THEN stack' = Return /\ visited_urls' = visited_urls
       ELSE IF AlreadyVisited(Running.url)
       THEN stack' = Return /\ visited_urls' = visited_urls
       ELSE /\ visited_urls' = visited_urls \cup {Running.url}
            /\ stack' = Continue([Running EXCEPT !.pc = "acquire"])
    /\ UNCHANGED <<call, asset_log, config, site, crawlPc, semaphore, pages, errors, warnings,
                   completed_at, statistics, fetches, sleeps>>

CanAcquire_Always == TRUE

\* asyncio.Semaphore.acquire: proceeds only while a permit is free.
CanAcquire == semaphore > 0

\* line 92, `async with self.semaphore:`
AcquireSemaphore ==
    /\ AtPc("acquire")
    /\ CanAcquire
    /\ semaphore' = semaphore - 1
    /\ stack' = Continue([Running EXCEPT !.pc = "download"])
    /\ UNCHANGED <<call, asset_log, config, site, crawlPc, visited_urls, pages, errors, warnings,
                   completed_at, statistics, fetches, sleeps>>

download_page_NoStatusCheck(url, depth, resp) ==
    IF resp.raises THEN <<>>
    ELSE IF resp.ctype # "text/html" THEN <<>>
    ELSE << [url |-> url, depth |-> depth, links |-> <<>>, assets |-> <<>>] >>

download_page_DepthOffByOne(url, depth, resp) ==
    IF resp.raises THEN <<>>
    ELSE IF resp.status # 200 THEN <<>>
    ELSE IF resp.ctype # "text/html" THEN <<>>
    ELSE << [url |-> url, depth |-> depth + 1, links |-> <<>>, assets |-> <<>>] >>

\* _download_page, lines 145-186: <<page>> for a Page, <<>> for None.
download_page(url, depth, resp) ==
    IF resp.raises THEN <<>>
    ELSE IF resp.status # 200 THEN <<>>
    ELSE IF resp.ctype # "text/html" THEN <<>>
    ELSE << [url |-> url, depth |-> depth, links |-> <<>>, assets |-> <<>>] >>

\* a _crawl_page whose `return` at line 99 would keep the permit
DownloadPage_ReturnKeepsPermit ==
    /\ AtPc("download")
    /\ \E resp \in Responses :
          LET got == download_page(Running.url, Running.depth, resp) IN
          /\ fetches' = Append(fetches, [url |-> Running.url, depth |-> Running.depth,
                                        resp |-> resp])
          /\ stack' = IF got = <<>>
                       THEN Return
                       ELSE Continue([Running EXCEPT !.pc = "save", !.page = got])
    /\ UNCHANGED <<call, asset_log, config, site, crawlPc, visited_urls, semaphore, pages, errors,
                   warnings, completed_at, statistics, sleeps>>

\* lines 96-99: one request; `if not page: return` leaves the `async with`.
DownloadPage ==
    /\ AtPc("download")
    /\ \E resp \in Responses :
          LET got == download_page(Running.url, Running.depth, resp) IN
          /\ fetches' = Append(fetches, [url |-> Running.url, depth |-> Running.depth,
                                        resp |-> resp])
          /\ stack' = IF got = <<>>
                       THEN Continue([Running EXCEPT !.pc = "release"])
                       ELSE Continue([Running EXCEPT !.pc = "save", !.page = got])
    /\ UNCHANGED <<call, asset_log, config, site, crawlPc, visited_urls, semaphore, pages, errors,
                   warnings, completed_at, statistics, sleeps>>

SavePage_ErrorOnlyLogged ==
    /\ AtPc("save")
    /\ \E ok \in BOOLEAN :
          IF ok
          THEN /\ stack' = Continue([Running EXCEPT !.pc = "add"])
               /\ errors' = errors
          ELSE /\ stack' = Continue([Running EXCEPT !.pc = "release"])
               /\ errors' = errors
    /\ UNCHANGED <<call, asset_log, config, site, crawlPc, visited_urls, semaphore, pages, warnings,
                   completed_at, statistics, fetches, sleeps>>

\* line 102: storage.save_page re-raises an I/O error (storage.py 107-121),
\* which the handler at lines 141-143 turns into an error entry.
SavePage ==
    /\ AtPc("save")
    /\ \E ok \in BOOLEAN :
          IF ok
          THEN /\ stack' = Continue([Running EXCEPT !.pc = "add"])
               /\ errors' = errors
          ELSE /\ stack' = Continue([Running EXCEPT !.pc = "release"])
               /\ errors' = Append(errors, CrawlError(Running.url))
    /\ UNCHANGED <<call, asset_log, config, site, crawlPc, visited_urls, semaphore, pages, warnings,
                   completed_at, statistics, fetches, sleeps>>

\* lines 104-108: site_map.add_page(page); analyze_page swallows its errors.
AddPage ==
    /\ AtPc("add")
    /\ pages' = Append(pages, Running.page[1])
    /\ stack' = Continue([Running EXCEPT !.pc = "extract", !.at = Len(pages) + 1])
    /\ UNCHANGED <<call, asset_log, config, site, crawlPc, visited_urls, semaphore, errors, warnings,
                   completed_at, statistics, fetches, sleeps>>

\* The document the server returns for a URL: the fragment is not sent, the
\* host is matched without regard to case.
DocumentLinks(u) ==
    IF Lower(u.host) = "ex.com" THEN SiteLinks(site, u.path) ELSE <<>>

\* _extract_links_and_assets, lines 194-207
extract_links(page_url) ==
    LET hrefs == SelectSeq(DocumentLinks(page_url), LAMBDA h : h.kind # "empty")
        normalized == [i \in 1..Len(hrefs) |-> normalize_url(hrefs[i], page_url)]
        valid == SelectSeq(normalized, is_valid_url)
    IN  [i \in 1..Len(valid) |->
            [url |-> valid[i],
             is_internal |-> is_same_domain(valid[i], Domain(page_url))]]

\* The asset references the document served for a URL holds.
DocumentAssets(u) ==
    IF Lower(u.host) = "ex.com" THEN SiteAssets(site, u.path) ELSE <<>>

\* _extract_links_and_assets, lines 209-232: Asset(size=0, checksum="")
extract_assets(page_url) ==
    LET refs == SelectSeq(DocumentAssets(page_url), LAMBDA h : h.kind # "empty")
        normalized == [i \in 1..Len(refs) |-> normalize_url(refs[i], page_url)]
        valid == SelectSeq(normalized, is_valid_url)
    IN  [i \in 1..Len(valid) |-> [url |-> valid[i], size |-> 0]]

\* lines 110-111: the links and assets of the page. storage.get_asset_path
\* (storage.py 83-105) creates a directory per asset and may fail; the error
\* leaves _extract_links_and_assets and reaches the handler at lines 141-143.
ExtractLinks ==
    /\ AtPc("extract")
    /\ LET links == extract_links(Running.page[1].url)
           assets == extract_assets(Running.page[1].url) IN
          \E path_ok \in (IF assets = <<>> THEN {TRUE} ELSE BOOLEAN) :
             IF path_ok
             THEN /\ stack' = Continue([Running EXCEPT !.pc = "assets", !.links = links,
                                                       !.assets = assets])
                  /\ errors' = errors
             ELSE /\ stack' = Continue([Running EXCEPT !.pc = "release"])
                  /\ errors' = Append(errors, CrawlError(Running.url))
    /\ UNCHANGED <<call, asset_log, config, site, crawlPc, visited_urls, semaphore, pages,
                   warnings, completed_at, statistics, fetches, sleeps>>

\* What a request for an asset can do: the asset is read and saved; the
\* status is not 200; session.get or response.read raises; save_asset raises.
AssetOutcomes == {"saved", "status404", "get_raises", "save_raises"}

\* _download_asset, lines 236-255: the Asset after the call. Its size is set
\* once the content is read (line 248); every exception is caught at line 254
\* and only logged.
download_asset(asset, outcome) ==
    IF outcome \in {"saved", "save_raises"}
    THEN [asset EXCEPT !.size = 1]
    ELSE asset

\* lines 113-116: one turn of the loop over the assets (skipped unless
\* save_assets is set).
DownloadAsset ==
    /\ AtPc("assets")
    /\ IF config.save_assets /\ Running.aidx <= Len(Running.assets)
       THEN \E outcome \in AssetOutcomes :
               LET asset == Running.assets[Running.aidx] IN
               /\ asset_log' = Append(asset_log, [url |-> asset.url,
                                                  page |-> Running.url,
                                                  outcome |-> outcome])
               /\ stack' = Continue([Running EXCEPT
                                       !.assets[Running.aidx] = download_asset(asset, outcome),
                                       !.aidx = @ + 1])
       ELSE /\ asset_log' = asset_log
            /\ stack' = Continue([Running EXCEPT !.pc = "attach"])
    /\ UNCHANGED <<call, config, site, crawlPc, visited_urls, semaphore, pages, errors,
                   warnings, completed_at, statistics, fetches, sleeps>>

\* lines 118-126: the links and assets become page.links and page.assets (the
\* Page is already in the SiteMap).
AttachLinks ==
    /\ AtPc("attach")
    /\ pages' = [pages EXCEPT ![Running.at].links = Running.links,
                              ![Running.at].assets = Running.assets]
    /\ stack' = Continue([Running EXCEPT !.pc = "resave"])
    /\ UNCHANGED <<call, asset_log, config, site, crawlPc, visited_urls, semaphore, errors, warnings,
                   completed_at, statistics, fetches, sleeps>>

\* line 129: the second save_page; a failure is handled as at line 102.
SaveUpdatedPage ==
    /\ AtPc("resave")
    /\ \E ok \in BOOLEAN :
          IF ok
          THEN /\ stack' = Continue([Running EXCEPT !.pc = "links"])
               /\ errors' = errors
          ELSE /\ stack' = Continue([Running EXCEPT !.pc = "release"])
               /\ errors' = Append(errors, CrawlError(Running.url))
    /\ UNCHANGED <<call, asset_log, config, site, crawlPc, visited_urls, semaphore, pages, warnings,
                   completed_at, statistics, fetches, sleeps>>

\* line 133
InternalLinks(links) == SelectSeq(links, LAMBDA l : l.is_internal)

\* line 132: recurse only below the depth limit
MayRecurse(depth) == depth < config.max_depth

ChildDepth_Same(depth) == depth

\* line 135: the depth passed to the recursive call
ChildDepth(depth) == depth + 1

\* The internal link frame i would crawl next, as <<link>>, or <<>> when its
\* loop at lines 132-135 is over (or is not entered).
NextLink(i) ==
    LET internal == InternalLinks(stack[i].links) IN
    IF stack[i].pc = "links" /\ MayRecurse(stack[i].depth)
       /\ stack[i].idx <= Len(internal)
    THEN <<internal[stack[i].idx]>>
    ELSE <<>>

\* `await self._crawl_page(...)` at line 135: frame i goes on only after the
\* call it awaits has returned, that is, when it is the last frame of the chain.
AwaitedCallReturned(i) == i = Len(stack)

\* lines 131-135: the loop over the internal links of frame i; each recursive
\* call is awaited, so the caller stays suspended (holding its permit) until
\* the call returns.
CrawlInternalLinks(i) ==
    /\ stack[i].pc = "links"
    /\ AwaitedCallReturned(i)
    /\ IF NextLink(i) # <<>>
       THEN stack' = Append([stack EXCEPT ![i].idx = @ + 1],
                            Frame(NextLink(i)[1].url, ChildDepth(stack[i].depth)))
       ELSE stack' = [stack EXCEPT ![i].pc = "sleep"]
    /\ UNCHANGED <<call, asset_log, config, site, crawlPc, visited_urls, semaphore, pages, errors,
                   warnings, completed_at, statistics, fetches, sleeps>>

CrawlLinks == \E i \in DOMAIN stack : CrawlInternalLinks(i)

\* lines 137-139
RateLimit ==
    /\ AtPc("sleep")
    /\ sleeps' = IF config.delay > 0 THEN sleeps + 1 ELSE sleeps
    /\ stack' = Continue([Running EXCEPT !.pc = "release"])
    /\ UNCHANGED <<call, asset_log, config, site, crawlPc, visited_urls, semaphore, pages, errors,
                   warnings, completed_at, statistics, fetches>>

\* leaving `async with self.semaphore` (normally, by `return` at line 99 or
\* after the handler at 141-143) releases the permit; _crawl_page returns.
ReleaseSemaphore ==
    /\ AtPc("release")
    /\ semaphore' = semaphore + 1
    /\ stack' = Return
    /\ UNCHANGED <<call, asset_log, config, site, crawlPc, visited_urls, pages, errors, warnings,
                   completed_at, statistics, fetches, sleeps>>

RECURSIVE CountLinks(_)
CountLinks(ps) ==
    IF ps = <<>> THEN 0 ELSE Len(ps[1].links) + CountLinks(Tail(ps))

\* a finalize() that would not count the errors
finalize_statistics_ErrorsNotCounted ==
    [total_pages |-> Len(pages), total_links |-> CountLinks(pages),
     errors |-> 0, warnings |-> Len(warnings)]

\* CrawlResult.finalize, models.py 227-241
finalize_statistics ==
    [total_pages |-> Len(pages), total_links |-> CountLinks(pages),
     errors |-> Len(errors), warnings |-> Len(warnings)]

\* crawl(), lines 76-80: the traversal has returned; finalize and return.
Finalize ==
    /\ crawlPc = "traversing"
    /\ stack = <<>>
    /\ completed_at' = TRUE
    /\ statistics' = finalize_statistics
    /\ crawlPc' = "returned"
    /\ UNCHANGED <<call, asset_log, config, site, stack, visited_urls, semaphore, pages, errors,
                   warnings, fetches, sleeps>>

Next ==
    \/ Crawl
    \/ CrawlPageEntry
    \/ AcquireSemaphore
    \/ DownloadPage
    \/ SavePage
    \/ AddPage
    \/ ExtractLinks
    \/ DownloadAsset
    \/ AttachLinks
    \/ SaveUpdatedPage
    \/ CrawlLinks
    \/ RateLimit
    \/ ReleaseSemaphore
    \/ Finalize

Spec == Init /\ [][Next]_vars

\* _crawl_page(url, depth, site_map, result) called on a new engine with a
\* depth at or beyond the limit, as the signature at line 82 allows; crawl()
\* itself only ever passes depths up to max_depth (lines 72, 132-135).
DirectCall ==
    /\ config \in Configs
    /\ site \in Sites
    /\ crawlPc = "traversing"
    /\ \E depth \in {config.max_depth, config.max_depth + 1} :
          stack = <<Frame(StartUrl, depth)>>
    /\ visited_urls = {}
    /\ semaphore = config.max_concurrent
    /\ pages = <<>>
    /\ errors = <<>>
    /\ warnings = <<>>
    /\ completed_at = FALSE
    /\ statistics = NoStatistics
    /\ fetches = <<>>
    /\ sleeps = 0
    /\ asset_log = <<>>
    /\ call = NoCall

\* crawl() and direct calls of _crawl_page
DirectSpec == (Init \/ DirectCall) /\ [][Next]_vars

\* The event loop keeps running the one coroutine whenever it can take a step.
FairSpec == Spec /\ WF_vars(Next)

\* ------------------------------------------------- configuration (config.py)
\* CrawlerConfig(), StorageConfig(), AnalysisConfig(): the dataclass defaults
DefaultCrawler ==
    [max_depth |-> 3, delay |-> 1, max_concurrent |-> 5,
     user_agent |-> "Recrafter/1.0", respect_robots_txt |-> TRUE,
     timeout |-> 30, max_retries |-> 3]

DefaultStorage ==
    [output_dir |-> "./crawl_output", save_assets |-> TRUE, clean_html |-> FALSE,
     create_backup |-> TRUE, max_file_size |-> 100 * 1024 * 1024]

DefaultAnalysis ==
    [extract_components |-> TRUE, generate_sitemap |-> TRUE,
     create_content_models |-> TRUE, extract_metadata |-> TRUE,
     identify_page_types |-> TRUE]

\* Config.default()
DefaultConfig ==
    [crawler |-> DefaultCrawler, storage |-> DefaultStorage, analysis |-> DefaultAnalysis]

\* a validate() that would accept max_depth = 0
validate_DepthZeroAllowed(self) ==
    IF self.crawler.max_depth < 0 THEN "max_depth must be at least 1"
    ELSE IF self.crawler.delay < 0 THEN "delay must be non-negative"
    ELSE IF self.crawler.max_concurrent < 1 THEN "max_concurrent must be at least 1"
    ELSE IF self.storage.max_file_size < 0 THEN "max_file_size must be non-negative"
    ELSE ""

\* Config.validate(): the ValueError it raises, or "" when it returns. It
\* assigns nothing.
validate(self) ==
    IF self.crawler.max_depth < 1 THEN "max_depth must be at least 1"
    ELSE IF self.crawler.delay < 0 THEN "delay must be non-negative"
    ELSE IF self.crawler.max_concurrent < 1 THEN "max_concurrent must be at least 1"
    ELSE IF self.storage.max_file_size < 0 THEN "max_file_size must be non-negative"
    ELSE ""

\* a to_dict() that would leave max_retries out
to_dict_WithoutMaxRetries(self) ==
    [crawler |->
        [max_depth |-> self.crawler.max_depth,
         delay |-> self.crawler.delay,
         max_concurrent |-> self.crawler.max_concurrent,
         user_agent |-> self.crawler.user_agent,
         respect_robots_txt |-> self.crawler.respect_robots_txt,
         timeout |-> self.crawler.timeout],
     storage |-> self.storage,
     analysis |-> self.analysis]

\* Config.to_dict(): a mapping per section, one key per field read
to_dict(self) ==
    [crawler |->
        [max_depth |-> self.crawler.max_depth,
         delay |-> self.crawler.delay,
         max_concurrent |-> self.crawler.max_concurrent,
         user_agent |-> self.crawler.user_agent,
         respect_robots_txt |-> self.crawler.respect_robots_txt,
         timeout |-> self.crawler.timeout,
         max_retries |-> self.crawler.max_retries],
     storage |->
        [output_dir |-> self.storage.output_dir,
         save_assets |-> self.storage.save_assets,
         clean_html |-> self.storage.clean_html,
         create_backup |-> self.storage.create_backup,
         max_file_size |-> self.storage.max_file_size],
     analysis |->
        [extract_components |-> self.analysis.extract_components,
         generate_sitemap |-> self.analysis.generate_sitemap,
         create_content_models |-> self.analysis.create_content_models,
         extract_metadata |-> self.analysis.extract_metadata,
         identify_page_types |-> self.analysis.identify_page_types]]

\* data.get(key, {}) on a mapping
Get(data, key) == IF key \in DOMAIN data THEN data[key] ELSE <<>>

\* A dataclass constructor called with **kwargs: a field takes the keyword
\* argument when it is given and its default otherwise.
Construct(defaults, kwargs) ==
    [f \in DOMAIN defaults |-> IF f \in DOMAIN kwargs THEN kwargs[f] ELSE defaults[f]]

\* Config.from_dict(data)
from_dict(data) ==
    [crawler |-> Construct(DefaultCrawler, Get(data, "crawler")),
     storage |-> Construct(DefaultStorage, Get(data, "storage")),
     analysis |-> Construct(DefaultAnalysis, Get(data, "analysis"))]

\* ------------------------------------------- similarity (analyzer.py 640-732)
\* The float results are kept as exact fractions n/d in lowest terms, d > 0.
\* Euclid's algorithm on values, so that each remainder is computed once
Euclid[a \in Nat, b \in Nat] == IF b = 0 THEN a ELSE Euclid[b, a % b]

GCD(a, b) == Euclid[a, b]

Abs(x) == IF x < 0 THEN -x ELSE x
Max(a, b) == IF a >= b THEN a ELSE b

\* a fraction in lowest terms; the operations on fractions take their
\* operands as values
Rationals == [n : Int, d : Nat \ {0}]

Rat(n, d) ==
    [a \in Int, b \in Nat \ {0} |->
        [g \in Nat |-> [n |-> a \div g, d |-> b \div g]][GCD(Abs(a), b)]][n, d]

Zero == Rat(0, 1)
One == Rat(1, 1)
RAdd(x, y) ==
    [a \in Rationals, b \in Rationals |->
        [lcm \in Nat |-> Rat(a.n * (lcm \div a.d) + b.n * (lcm \div b.d), lcm)]
            [(a.d \div GCD(a.d, b.d)) * b.d]][x, y]
RMul(x, y) ==
    [a \in Rationals, b \in Rationals |->
        [g1 \in Nat, g2 \in Nat |->
            Rat((a.n \div g1) * (b.n \div g2), (a.d \div g2) * (b.d \div g1))]
            [GCD(Abs(a.n), b.d), GCD(Abs(b.n), a.d)]][x, y]
RLeq(x, y) == x.n * y.d <= y.n * x.d

\* sum(...) of a list of floats: the entries are added from the first on
RSum(q) ==
    [s \in Seq(Rationals) |->
        LET total[i \in 0..Len(s)] ==
                IF i = 0 THEN Zero ELSE RAdd(total[i - 1], s[i])
        IN  total[Len(s)]][q]

\* np.mean(...) of a non-empty list
Mean(q) == [s \in Seq(Rationals) |-> RMul(RSum(s), Rat(1, Len(s)))][q]

\* a set of keys in the order it is iterated
RECURSIVE Keys(_)
Keys(S) ==
    IF S = {} THEN <<>>
    ELSE LET k == CHOOSE x \in S : TRUE IN <<k>> \o Keys(S \ {k})

\* lines 702-706 and 722-726: 1.0 - abs(val1 - val2) / max_val, 1.0 if max_val == 0
value_similarity(val1, val2) ==
    LET max_val == Max(val1, val2)
    IN  IF max_val = 0 THEN One
        ELSE RAdd(One, Rat(-Abs(val1 - val2), max_val))

\* a dict similarity that would score two empty dicts 0.0
calculate_dict_similarity_EmptyIsZero(dict1, dict2) ==
    IF DOMAIN dict1 = {} \/ DOMAIN dict2 = {} THEN Zero
    ELSE LET all_keys == DOMAIN dict1 \cup DOMAIN dict2
             common_keys == DOMAIN dict1 \cap DOMAIN dict2
             key_similarity == Rat(Cardinality(common_keys), Cardinality(all_keys))
             order == Keys(common_keys)
             value_similarities ==
                 [i \in 1..Len(order) |->
                     value_similarity(dict1[order[i]], dict2[order[i]])]
         IN  IF common_keys = {} THEN RMul(key_similarity, Rat(5, 10))
             ELSE RAdd(RMul(key_similarity, Rat(3, 10)),
                       RMul(Mean(value_similarities), Rat(7, 10)))

\* a dict similarity with the two weights of line 712 exchanged
calculate_dict_similarity_WeightsSwapped(dict1, dict2) ==
    IF DOMAIN dict1 = {} /\ DOMAIN dict2 = {} THEN One
    ELSE IF DOMAIN dict1 = {} \/ DOMAIN dict2 = {} THEN Zero
    ELSE LET all_keys == DOMAIN dict1 \cup DOMAIN dict2
             common_keys == DOMAIN dict1 \cap DOMAIN dict2
             key_similarity == Rat(Cardinality(common_keys), Cardinality(all_keys))
             order == Keys(common_keys)
             value_similarities ==
                 [i \in 1..Len(order) |->
                     value_similarity(dict1[order[i]], dict2[order[i]])]
         IN  IF common_keys = {} THEN RMul(key_similarity, Rat(5, 10))
             ELSE RAdd(RMul(key_similarity, Rat(7, 10)),
                       RMul(Mean(value_similarities), Rat(3, 10)))

\* _calculate_dict_similarity, lines 682-712
calculate_dict_similarity(dict1, dict2) ==
    IF DOMAIN dict1 = {} /\ DOMAIN dict2 = {} THEN One
    ELSE IF DOMAIN dict1 = {} \/ DOMAIN dict2 = {} THEN Zero
    ELSE LET all_keys == DOMAIN dict1 \cup DOMAIN dict2
             common_keys == DOMAIN dict1 \cap DOMAIN dict2
             key_similarity == Rat(Cardinality(common_keys), Cardinality(all_keys))
             order == Keys(common_keys)
             value_similarities ==
                 [i \in 1..Len(order) |->
                     value_similarity(dict1[order[i]], dict2[order[i]])]
         IN  IF common_keys = {} THEN RMul(key_similarity, Rat(5, 10))
             ELSE RAdd(RMul(key_similarity, Rat(3, 10)),
                       RMul(Mean(value_similarities), Rat(7, 10)))

\* _calculate_content_similarity, lines 714-732: one term per key of
\* content1; the values are all int, so line 720 always takes the numeric
\* branch.
calculate_content_similarity(content1, content2) ==
    LET order == Keys(DOMAIN content1)
        similarities ==
            [i \in 1..Len(order) |->
                IF order[i] \in DOMAIN content2
                THEN value_similarity(content1[order[i]], content2[order[i]])
                ELSE Zero]
    IN  IF similarities # <<>> THEN Mean(similarities) ELSE Zero

\* a component-count score that would divide by the first count only
component_similarity_ByFirst(count1, count2) ==
    RAdd(One, Rat(-Abs(count1 - count2), Max(count1, 1)))

\* line 672: 1.0 - abs(c1 - c2) / max(c1, c2, 1)
component_similarity(count1, count2) ==
    RAdd(One, Rat(-Abs(count1 - count2), Max(Max(count1, count2), 1)))

\* the five sub-scores of lines 660-677, before weighting
sub_scores(features1, features2) ==
    [tag_sim |-> calculate_dict_similarity(features1.tag_structure,
                                           features2.tag_structure),
     class_sim |-> calculate_dict_similarity(features1.class_patterns,
                                             features2.class_patterns),
     layout_sim |-> IF features1.layout_signature = features2.layout_signature
                    THEN One ELSE Zero,
     comp_sim |-> component_similarity(features1.component_count,
                                       features2.component_count),
     content_sim |-> calculate_content_similarity(features1.content_structure,
                                                  features2.content_structure)]

\* the weights 0.3, 0.25, 0.2, 0.15, 0.1 of lines 662, 666, 670, 674, 678
Weights ==
    [tag_sim |-> Rat(30, 100), class_sim |-> Rat(25, 100), layout_sim |-> Rat(20, 100),
     comp_sim |-> Rat(15, 100), content_sim |-> Rat(10, 100)]

ScoreOrder == <<"tag_sim", "class_sim", "layout_sim", "comp_sim", "content_sim">>

\* _calculate_page_similarity, lines 656-680
calculate_page_similarity(features1, features2) ==
    LET scores == sub_scores(features1, features2)
        similarities ==
            [i \in 1..Len(ScoreOrder) |->
                RMul(scores[ScoreOrder[i]], Weights[ScoreOrder[i]])]
    IN  RSum(similarities)

\* a similarity matrix whose diagonal would be left at 0.0
calculate_similarity_matrix_NoDiagonal(page_features) ==
    LET n_pages == Len(page_features)
    IN  [i \in 1..n_pages |->
           [j \in 1..n_pages |->
               IF i < j
               THEN calculate_page_similarity(page_features[i], page_features[j])
               ELSE IF j < i
               THEN calculate_page_similarity(page_features[j], page_features[i])
               ELSE Zero]]

\* _calculate_similarity_matrix, lines 640-654: the entries above the
\* diagonal are computed and mirrored, then the diagonal is set to 1.0
calculate_similarity_matrix(page_features) ==
    LET n_pages == Len(page_features)
    IN  [i \in 1..n_pages |->
           [j \in 1..n_pages |->
               IF i < j
               THEN calculate_page_similarity(page_features[i], page_features[j])
               ELSE IF j < i
               THEN calculate_page_similarity(page_features[j], page_features[i])
               ELSE One]]

\* ------------------------------------------ clustering (analyzer.py 514-554)
RLess(x, y) == x.n * y.d < y.n * x.d

\* a numpy array of floats with two axes, and a row of cluster labels
Matrices == Seq(Seq(Rationals))
Labels == Seq(Int)

\* 1 - similarity_matrix (line 530)
distance(similarity_matrix) ==
    [i \in DOMAIN similarity_matrix |->
        [j \in DOMAIN similarity_matrix[i] |->
            RAdd(One, Rat(-similarity_matrix[i][j].n, similarity_matrix[i][j].d))]]

\* sklearn DBSCAN on a precomputed distance matrix: the eps-neighbourhood of
\* a point (the point itself included), the core points, and the points
\* reached from a seed through core points.
Neighbours(distance_matrix, eps, i) ==
    {j \in DOMAIN distance_matrix : RLeq(distance_matrix[i][j], eps)}

CorePoints(distance_matrix, eps, min_samples) ==
    {i \in DOMAIN distance_matrix :
        Cardinality(Neighbours(distance_matrix, eps, i)) >= min_samples}

\* a DBSCAN that would not expand a cluster beyond the neighbours of its seed
Expand_SeedOnly(distance_matrix, eps, min_samples, reached) ==
    reached \cup UNION {Neighbours(distance_matrix, eps, j) : j \in reached}

RECURSIVE Expand(_, _, _, _)
Expand(distance_matrix, eps, min_samples, reached) ==
    [found \in SUBSET DOMAIN distance_matrix |->
        [more \in SUBSET DOMAIN distance_matrix |->
            IF more = found THEN found
            ELSE Expand(distance_matrix, eps, min_samples, more)]
            [found \cup UNION {Neighbours(distance_matrix, eps, j) :
                 j \in found \cap CorePoints(distance_matrix, eps, min_samples)}]]
        [reached]

\* The points are visited in index order; an unlabelled core point starts
\* the next cluster, which takes every unlabelled point reached from it.
\* -1 is the noise label.
RECURSIVE fit_predict(_, _, _, _, _, _)
fit_predict(distance_matrix, eps, min_samples, i, labels, next_label) ==
    [so_far \in Labels |->
        IF i > Len(distance_matrix) THEN so_far
        ELSE IF so_far[i] # -1 \/ i \notin CorePoints(distance_matrix, eps, min_samples)
        THEN fit_predict(distance_matrix, eps, min_samples, i + 1, so_far, next_label)
        ELSE [members \in SUBSET DOMAIN distance_matrix |->
                 fit_predict(distance_matrix, eps, min_samples, i + 1,
                             [k \in DOMAIN so_far |->
                                 IF k \in members /\ so_far[k] = -1
                                 THEN next_label ELSE so_far[k]],
                             next_label + 1)]
                 [Expand(distance_matrix, eps, min_samples, {i})]]
        [labels]

\* DBSCAN(eps, min_samples, metric='precomputed').fit_predict(distance_matrix)
DBSCAN(eps, min_samples, distance_matrix) ==
    [distances \in Matrices |->
        fit_predict(distances, eps, min_samples, 1,
                    [k \in DOMAIN distances |-> -1], 0)][distance_matrix]

\* round(x, 3) of a non-negative value: the nearest thousandth, a tie going
\* to the even one
round3(x) ==
    [v \in Rationals |->
        LET \* one more decimal digit of the quotient
            Digit == [st \in [q : Nat, r : Nat] |->
                         [q |-> st.q * 10 + (st.r * 10) \div v.d, r |-> (st.r * 10) % v.d]]
        IN  [st \in [q : Nat, r : Nat] |->
                IF 2 * st.r > v.d \/ (2 * st.r = v.d /\ st.q % 2 = 1)
                THEN Rat(st.q + 1, 1000)
                ELSE Rat(st.q, 1000)]
                [Digit[Digit[Digit[[q |-> v.n \div v.d, r |-> v.n % v.d]]]]]][x]

\* the positions of a sequence whose entry satisfies a test, in order
Indices(q, Test(_)) ==
    LET F[i \in 0..Len(q)] ==
            IF i = 0 THEN <<>>
            ELSE IF Test(q[i]) THEN Append(F[i - 1], i) ELSE F[i - 1]
    IN  F[Len(q)]

\* recommendations that would leave out the clusters of two pages
generate_clustering_recommendations_OnlyAboveTwo(clusters, similarity_matrix, page_list) ==
    LET Recommendation(label) ==
            IF Len(clusters[label]) > 2
            THEN <<[cluster |-> label - 1, page_count |-> Len(clusters[label]),
                    average_similarity |-> One]>>
            ELSE <<>>
        F[k \in 0..Len(clusters)] ==
            IF k = 0 THEN <<>> ELSE F[k - 1] \o Recommendation(k)
    IN  F[Len(clusters)]

\* _generate_clustering_recommendations, lines 734-768. `clusters` lists the
\* clusters in the order of their labels, cluster_<label> at place label + 1;
\* the page types and the template suggestions are left out.
generate_clustering_recommendations(clusters, similarity_matrix, page_list) ==
    LET Recommendation(label) ==
            [cluster_indices \in Seq(Nat) |->
                LET cluster_similarities ==
                        LET G[i \in 0..Len(cluster_indices)] ==
                                IF i = 0 THEN <<>>
                                ELSE G[i - 1] \o
                                     [j \in 1..(Len(cluster_indices) - 1) |->
                                         similarity_matrix[cluster_indices[i]]
                                             [SelectSeq(cluster_indices,
                                                  LAMBDA o : o # cluster_indices[i])[j]]]
                        IN  G[Len(cluster_indices)]
                IN  IF Len(clusters[label]) > 1 /\ Len(cluster_indices) > 1
                    THEN <<[cluster |-> label - 1,
                            page_count |-> Len(clusters[label]),
                            average_similarity |->
                                round3([similarities \in Seq(Rationals) |->
                                           IF similarities # <<>> THEN Mean(similarities)
                                           ELSE Zero][cluster_similarities])]>>
                    ELSE <<>>]
                [Indices(page_list,
                         LAMBDA page : \E k \in DOMAIN clusters[label] :
                                          page.url = clusters[label][k].url)]
        F[k \in 0..Len(clusters)] ==
            IF k = 0 THEN <<>> ELSE F[k - 1] \o Recommendation(k)
    IN  F[Len(clusters)]

\* the result of lines 516-517
EmptyClustering == [clusters |-> <<>>, similarity_matrix |-> <<>>, recommendations |-> <<>>]

\* lines 534-554 of cluster_pages_by_structure: the pages grouped by label,
\* the recommendations and the result
group_pages(page_list, similarity_threshold, similarity_matrix, cluster_labels) ==
    [clusters \in Seq(Seq([url : Nat, similarity_score : Rationals])) |->
        [clusters |-> clusters,
         similarity_matrix |-> similarity_matrix,
         recommendations |->
             generate_clustering_recommendations(clusters, similarity_matrix, page_list),
         similarity_threshold |-> similarity_threshold,
         total_pages |-> Len(page_list),
         cluster_count |-> Len(clusters)]]
        [[c \in 1..Cardinality({cluster_labels[i] : i \in DOMAIN cluster_labels} \ {-1}) |->
             [k \in 1..Cardinality({i \in DOMAIN cluster_labels :
                                       cluster_labels[i] = c - 1}) |->
                 \* the k-th page labelled c - 1
                 [at \in DOMAIN cluster_labels |->
                     [url |-> page_list[at].url,
                      similarity_score |-> Mean(similarity_matrix[at])]]
                     [CHOOSE i \in DOMAIN cluster_labels :
                         /\ cluster_labels[i] = c - 1
                         /\ Cardinality({j \in 1..i : cluster_labels[j] = c - 1}) = k]]]]

\* lines 519-554 of cluster_pages_by_structure: for at least two pages
cluster_pages(page_list, similarity_threshold) ==
    [similarity_matrix \in Matrices |->
        [cluster_labels \in Labels |->
            group_pages(page_list, similarity_threshold, similarity_matrix,
                        cluster_labels)]
            [DBSCAN(RAdd(One, Rat(-similarity_threshold.n, similarity_threshold.d)),
                    2, distance(similarity_matrix))]]
        [calculate_similarity_matrix([i \in DOMAIN page_list |-> page_list[i].features])]

\* a clustering that would go on with a single page
cluster_pages_by_structure_OnePageClustered(page_list, similarity_threshold) ==
    IF Len(page_list) < 1 THEN EmptyClustering
    ELSE cluster_pages(page_list, similarity_threshold)

\* cluster_pages_by_structure, lines 514-554
cluster_pages_by_structure(page_list, similarity_threshold) ==
    IF Len(page_list) < 2 THEN EmptyClustering
    ELSE cluster_pages(page_list, similarity_threshold)

\* _generate_migration_recommendations, analysis_engine.py 304-315: one
\* template recommendation per clustering recommendation
template_recommendations(clustering_results) ==
    [k \in DOMAIN clustering_results.recommendations |->
        [type |-> "template_optimization",
         priority |-> IF RLess(Rat(9, 10),
                               clustering_results.recommendations[k].average_similarity)
                      THEN "high" ELSE "medium",
         details |-> clustering_results.recommendations[k]]]

\* ---------------------------------- layout signature (analyzer.py 601-626)
\* the landmark kinds _extract_layout_signature looks for, in the order of
\* its tests
Landmarks == <<"header", "nav", "main", "aside", "footer", "grid", "form">>

LandmarkKinds == {Landmarks[i] : i \in DOMAIN Landmarks}

\* the letter appended for a landmark kind (lines 607, 609, 611, 613, 615,
\* 620, 624)
Letter(kind) ==
    CASE kind = "header" -> "H"
      [] kind = "nav"    -> "N"
      [] kind = "main"   -> "M"
      [] kind = "aside"  -> "A"
      [] kind = "footer" -> "F"
      [] kind = "grid"   -> "G"
      [] kind = "form"   -> "F"

\* the place of a letter in the order sorted() uses
Alphabet == <<"A", "F", "G", "H", "M", "N">>
Rank(letter) == CHOOSE i \in DOMAIN Alphabet : Alphabet[i] = letter

\* sorted(parts): insertion of each part after the parts not greater than it
RECURSIVE Sorted(_)
Insert(q, x) ==
    LET before == SelectSeq(q, LAMBDA y : Rank(y) <= Rank(x))
        after == SelectSeq(q, LAMBDA y : Rank(y) > Rank(x))
    IN  before \o <<x>> \o after
Sorted(q) == IF q = <<>> THEN <<>> ELSE Insert(Sorted(Tail(q)), q[1])

\* _extract_layout_signature for a document in which the landmark kinds
\* `present` occur: the signature string, as the sequence of its letters
extract_layout_signature(present) ==
    LET found == SelectSeq(Landmarks, LAMBDA kind : kind \in present)
        signature_parts == [i \in 1..Len(found) |-> Letter(found[i])]
    IN  Sorted(signature_parts)

\* ------------------------------------------- calls of the pure functions
\* The configurations passed to validate() and to_dict(): each section takes
\* every combination of its values while the other two keep their defaults.
\* delay is counted in whole seconds.
CrawlerInputs ==
    [max_depth : {0, 1, 3}, delay : {-1, 0, 1}, max_concurrent : {0, 1, 5},
     user_agent : {"Recrafter/1.0", "bot"}, respect_robots_txt : BOOLEAN,
     timeout : {5, 30}, max_retries : {0, 3}]

StorageInputs ==
    [output_dir : {"./crawl_output", "out"}, save_assets : BOOLEAN,
     clean_html : BOOLEAN, create_backup : BOOLEAN,
     max_file_size : {-1, 0, 100 * 1024 * 1024}]

AnalysisInputs ==
    [extract_components : BOOLEAN, generate_sitemap : BOOLEAN,
     create_content_models : BOOLEAN, extract_metadata : BOOLEAN,
     identify_page_types : BOOLEAN]

ConfigInputs ==
    {[crawler |-> c, storage |-> DefaultStorage, analysis |-> DefaultAnalysis] :
        c \in CrawlerInputs}
    \cup {[crawler |-> DefaultCrawler, storage |-> s, analysis |-> DefaultAnalysis] :
        s \in StorageInputs}
    \cup {[crawler |-> DefaultCrawler, storage |-> DefaultStorage, analysis |-> a] :
        a \in AnalysisInputs}

\* The (url, base_url) arguments of normalize_url: every kind of href
\* against the URLs a page can have, the start URL as the user typed it
\* included.
HrefInputs ==
    {Href("empty", "", "", ""), Href("fragonly", "", "", "top"),
     Href("protorel", "EX.com", "/b", ""), Href("rel", "", "/x", "a"),
     Href("rel", "", "/x", ""), Href("abs", "other.org", "/", ""),
     Href("ABS", "ex.com", "/a", ""), Href("mailto", "", "me", "")}

BaseInputs ==
    {StartUrl, Url("http", "ex.com", "/a", "f"), Url("http", "EX.com", "/", ""),
     Url("HTTP", "ex.com", "/a", "")}

\* the dicts a Counter can give over some keys: each key present has a
\* count of at least 1
Dicts(keys, counts) == UNION {[K -> counts] : K \in SUBSET keys}

\* _extract_content_structure, lines 628-638: always the same six keys
ContentInputs ==
    [text_length : {0, MaxCount}, heading_count : {0}, paragraph_count : {1},
     link_count : {0}, image_count : {0}, list_count : {0}]

\* The features _extract_structural_features builds (lines 560-567);
\* id_patterns is not read by the similarity and is left out.
Signatures ==
    [tag_structure : Dicts({"div", "p"}, 1..MaxCount),
     class_patterns : Dicts({"nav"}, {1}),
     layout_signature : {"", "HF"},
     component_count : {0, MaxCount},
     content_structure : ContentInputs]

\* the signatures of the pages given to the similarity matrix
PageSignatures ==
    {sig \in Signatures :
        /\ sig.class_patterns = <<>>
        /\ sig.layout_signature = "HF"
        /\ sig.content_structure.text_length = 0
        /\ DOMAIN sig.tag_structure = {"div", "p"}
        /\ sig.tag_structure["div"] = 1}

RECURSIVE Lists(_, _)
Lists(S, n) ==
    IF n = 0 THEN {<<>>}
    ELSE Lists(S, n - 1) \cup {Append(q, x) : q \in [1..(n - 1) -> S], x \in S}

Call(op, args) == [op |-> op, args |-> args, out |-> <<>>]

Called(op) == call.op = op /\ Len(call.out) = 0
Returned(op) == call.op = op /\ Len(call.out) > 0

crawlVars == <<config, site, crawlPc, stack, visited_urls, semaphore, pages, errors,
               warnings, completed_at, statistics, fetches, sleeps, asset_log>>

\* config.validate()
Validate ==
    /\ Called("validate")
    /\ call' = [call EXCEPT !.out = <<[raised |-> validate(call.args[1]),
                                       self |-> call.args[1]]>>]
    /\ UNCHANGED crawlVars

\* config.to_dict()
ToDict ==
    /\ Called("to_dict")
    /\ call' = [call EXCEPT !.out = <<to_dict(call.args[1])>>]
    /\ UNCHANGED crawlVars

\* Config.from_dict(data) on the mapping to_dict() returned
FromDict ==
    /\ call.op = "to_dict"
    /\ Len(call.out) = 1
    /\ call' = [call EXCEPT !.out = Append(call.out, from_dict(call.out[1]))]
    /\ UNCHANGED crawlVars

\* normalize_url(url, base_url)
NormalizeUrl ==
    /\ Called("normalize_url")
    /\ call' = [call EXCEPT !.out = <<normalize_url(call.args[1], call.args[2])>>]
    /\ UNCHANGED crawlVars

\* normalize_url(result, base_url) on the string the first call returned
NormalizeAgain ==
    /\ call.op = "normalize_url"
    /\ Len(call.out) = 1
    /\ call' = [call EXCEPT
                   !.out = Append(call.out,
                                  normalize_url(AsHref(call.out[1]), call.args[2]))]
    /\ UNCHANGED crawlVars

\* The features of a small document: html and body, `p` paragraphs, `a`
\* links, `h` h1 headings and `text` characters of text, no class attribute.
Doc(p, a, h, text, layout, components) ==
    [tag_structure |->
        [t \in {"html", "body"} \cup (IF p > 0 THEN {"p"} ELSE {})
                \cup (IF a > 0 THEN {"a"} ELSE {}) \cup (IF h > 0 THEN {"h1"} ELSE {}) |->
            CASE t = "p" -> p [] t = "a" -> a [] t = "h1" -> h [] OTHER -> 1],
     class_patterns |-> <<>>,
     layout_signature |-> layout,
     component_count |-> components,
     content_structure |->
        [text_length |-> text, heading_count |-> h, paragraph_count |-> p,
         link_count |-> a, image_count |-> 0, list_count |-> 0]]

\* Pages to cluster: at 0.8, A is similar to B and B to C but A is not to C
\* (0.9003, 0.85, 0.7503); D is similar to none of them.
SampleFeatures ==
    {Doc(1, 1, 1, 3, "HF", 0), Doc(2, 2, 2, 10, "HF", 0), Doc(2, 2, 2, 10, "HF", 1),
     Doc(0, 3, 0, 1, "", 2)}

\* Five pages: three with the same structure and text lengths within 10% of
\* each other, two unlike them and unlike each other.
ScenarioA ==
    <<Doc(2, 2, 1, 20, "HF", 0), Doc(2, 2, 1, 21, "HF", 0), Doc(2, 2, 1, 22, "HF", 0),
      Doc(0, 3, 0, 1, "", 2), Doc(3, 0, 0, 50, "GM", 5)>>

\* Five pages of two templates, interleaved: the first and the third are
\* alike, the second and the fourth are the same document, the fifth is
\* unlike all of them.
ScenarioB ==
    <<Doc(1, 1, 1, 3, "HF", 0), Doc(0, 3, 0, 1, "", 2), Doc(2, 2, 2, 10, "HF", 0),
      Doc(0, 3, 0, 1, "", 2), Doc(3, 0, 0, 50, "GM", 5)>>

\* the crawled pages with these features, in order, each with its own URL
Pages(features) == [i \in DOMAIN features |-> [url |-> i, features |-> features[i]]]

\* similarity thresholds; _analyze_page_clustering passes 0.8
\* (analysis_engine.py:114)
DefaultThreshold == Rat(8, 10)
Thresholds == {Rat(1, 2), DefaultThreshold}

\* the frequency mappings given to _calculate_dict_similarity
DictInputs == Dicts({"div", "p", "a"}, 1..MaxCount)

\* analyzer.cluster_pages_by_structure(pages, similarity_threshold)
ClusterPages ==
    /\ Called("cluster_pages")
    /\ call' = [call EXCEPT
                   !.out = <<cluster_pages_by_structure(call.args[1], call.args[2])>>]
    /\ UNCHANGED crawlVars

\* _generate_migration_recommendations on the clustering of the pages at the
\* threshold _analyze_page_clustering passes
TemplateRecommendations ==
    /\ call.op = "cluster_pages"
    /\ call.args[2] = DefaultThreshold
    /\ Len(call.out) = 1
    /\ call' = [call EXCEPT
                   !.out = Append(call.out, template_recommendations(call.out[1]))]
    /\ UNCHANGED crawlVars

\* _extract_layout_signature on two documents
LayoutSignature ==
    /\ Called("layout_signature")
    /\ call' = [call EXCEPT !.out = <<extract_layout_signature(call.args[1]),
                                       extract_layout_signature(call.args[2])>>]
    /\ UNCHANGED crawlVars

\* _calculate_dict_similarity(dict1, dict2)
DictSimilarity ==
    /\ Called("dict_similarity")
    /\ call' = [call EXCEPT
                   !.out = <<calculate_dict_similarity(call.args[1], call.args[2])>>]
    /\ UNCHANGED crawlVars

\* _calculate_page_similarity(features1, features2), with its sub-scores
PageSimilarity ==
    /\ Called("page_similarity")
    /\ call' = [call EXCEPT
                   !.out = <<[scores |-> sub_scores(call.args[1], call.args[2]),
                              similarity |-> calculate_page_similarity(call.args[1],
                                                                       call.args[2])]>>]
    /\ UNCHANGED crawlVars

\* the same call with the two arguments exchanged
PageSimilaritySwapped ==
    /\ call.op = "page_similarity"
    /\ Len(call.out) = 1
    /\ call' = [call EXCEPT
                   !.out = Append(call.out,
                      [scores |-> sub_scores(call.args[2], call.args[1]),
                       similarity |-> calculate_page_similarity(call.args[2],
                                                                call.args[1])])]
    /\ UNCHANGED crawlVars

\* _calculate_similarity_matrix(page_features)
SimilarityMatrix ==
    /\ Called("similarity_matrix")
    /\ call' = [call EXCEPT !.out = <<calculate_similarity_matrix(call.args[1])>>]
    /\ UNCHANGED crawlVars

\* the calls made: one of these in each behaviour
PureCalls ==
    <<{Call("validate", <<c>>) : c \in ConfigInputs},
      {Call("to_dict", <<c>>) : c \in ConfigInputs},
      {Call("normalize_url", <<h, b>>) : h \in HrefInputs, b \in BaseInputs},
      {Call("page_similarity", <<s1, s2>>) : s1 \in Signatures, s2 \in Signatures},
      {Call("dict_similarity", <<d1, d2>>) : d1 \in DictInputs, d2 \in DictInputs},
      {Call("cluster_pages", <<Pages(q), t>>) :
             q \in Lists(SampleFeatures, MaxPages) \cup {ScenarioA, ScenarioB},
             t \in Thresholds},
      {Call("layout_signature", <<k1, k2>>) :
             k1 \in SUBSET LandmarkKinds, k2 \in SUBSET LandmarkKinds},
      {Call("similarity_matrix", <<q>>) : q \in Lists(PageSignatures, MaxPages)}>>

PureInit ==
    /\ \E family \in DOMAIN PureCalls : call \in PureCalls[family]
    /\ config = [max_depth |-> 1, max_concurrent |-> 1, delay |-> 0,
                 max_retries |-> 0, save_assets |-> FALSE]
    /\ site = "chain"
    /\ NotStarted

PureNext ==
    \/ Validate
    \/ ToDict
    \/ FromDict
    \/ NormalizeUrl
    \/ NormalizeAgain
    \/ ClusterPages
    \/ TemplateRecommendations
    \/ LayoutSignature
    \/ DictSimilarity
    \/ PageSimilarity
    \/ PageSimilaritySwapped
    \/ SimilarityMatrix

PureSpec == PureInit /\ [][PureNext]_vars

\* ---------------------------------------------------- auxiliary notions
SeqToSet(q) == {q[i] : i \in DOMAIN q}
PageUrls == {pages[i].url : i \in DOMAIN pages}
Path(path) == Url("http", "ex.com", path, "")

\* number of requests issued for a URL
FetchCount(u) == Cardinality({i \in DOMAIN fetches : fetches[i].url = u})

\* a reply that is a failure or a skip: an exception or timeout, a status
\* other than 200, or a content type other than HTML
FetchFailed(resp) == resp.raises \/ resp.status # 200 \/ resp.ctype # "text/html"

\* the requests that failed or were skipped
FailedFetches == {i \in DOMAIN fetches : FetchFailed(fetches[i].resp)}

\* every request so far returned an HTML document and every save succeeded
AllSucceeded == FailedFetches = {} /\ errors = <<>>

\* frames that hold a permit of the semaphore
Holders == {i \in DOMAIN stack : stack[i].pc \notin {"entry", "acquire"}}

\* frames whose page request is in flight
InFlight == {i \in DOMAIN stack : stack[i].pc = "download"}

\* the URLs within k hops of the start URL over internal links
RECURSIVE Within(_)
Within(k) ==
    IF k = 0 THEN {StartUrl}
    ELSE LET near == Within(k - 1) IN
         near \cup {l.url : l \in UNION {SeqToSet(InternalLinks(extract_links(u))) :
                                            u \in near}}

TypeOK ==
    /\ semaphore \in Int
    /\ crawlPc \in {"init", "traversing", "returned", "raised"}

\* ------------------------------------------------------------------ claims

\* C1: once the traversal has started, crawl() always gets to return: the
\* crawl is never stuck (no step possible) before it has returned.
C1_CrawlReturns == crawlPc = "traversing" => ENABLED Next

\* C2: a page request is issued at most once per URL; only admitted URLs are
\* requested; an admitted URL has had exactly one request as soon as its frame
\* is past the download (so when crawl() returns, each admitted URL has
\* exactly one), whatever the outcome of the request.
C2_FetchedAtMostOnce ==
    /\ \A i \in DOMAIN fetches : fetches[i].url \in visited_urls
    /\ \A u \in visited_urls :
          FetchCount(u) =
             IF \E i \in DOMAIN stack :
                   stack[i].url = u /\ stack[i].pc \in {"acquire", "download"}
             THEN 0 ELSE 1

C2_Witness ==
    /\ site = "cycle" /\ crawlPc = "returned" /\ config.max_retries = 3
    /\ PageUrls = {Path("/"), Path("/b")}
    /\ Len(fetches) = 2

\* C3: no two Pages of the SiteMap share a canonical URL (fragment removed).
C3_NoDuplicateCanonical ==
    \A i, j \in DOMAIN pages :
        Canonical(pages[i].url) = Canonical(pages[j].url) => i = j

\* C4: every Page has 0 <= depth <= max_depth and no request is issued at a
\* depth beyond max_depth; on the chain / -> /b -> /c -> /d with max depth 2,
\* /d is never requested and, when everything succeeds, the final SiteMap is
\* exactly {/, /b, /c}.
C4_DepthBounded ==
    /\ \A i \in DOMAIN pages : 0 <= pages[i].depth /\ pages[i].depth <= config.max_depth
    /\ \A i \in DOMAIN fetches : fetches[i].depth <= config.max_depth
    /\ (site = "chain" /\ config.max_depth = 2) =>
          /\ FetchCount(Path("/d")) = 0
          /\ Path("/d") \notin PageUrls
          /\ (crawlPc = "returned" /\ AllSucceeded) =>
                 PageUrls = {Path("/"), Path("/b"), Path("/c")}

C4_Witness ==
    /\ site = "chain" /\ config.max_depth = 2 /\ crawlPc = "returned"
    /\ PageUrls = {Path("/"), Path("/b"), Path("/c")}

\* C5: the start page has depth 0, and every other Page of depth d has a
\* parent Page of depth d-1, added earlier, with an internal link to it.
C5_DepthIsParentPlusOne ==
    \A i \in DOMAIN pages :
        IF pages[i].url = StartUrl
        THEN pages[i].depth = 0
        ELSE \E j \in 1..(i - 1) :
                /\ pages[j].depth = pages[i].depth - 1
                /\ \E k \in DOMAIN pages[j].links :
                      /\ pages[j].links[k].url = pages[i].url
                      /\ pages[j].links[k].is_internal

C5_Witness ==
    /\ site = "diamond"
    /\ \E i \in DOMAIN pages : pages[i].depth = 2 /\ pages[i].url = Path("/c")

\* C6: when the crawl has returned and every request and save succeeded, every
\* URL within max_depth hops of the start URL has a Page in the SiteMap.
C6_AllReachableCrawled ==
    (crawlPc = "returned" /\ AllSucceeded) => Within(config.max_depth) \subseteq PageUrls

\* C7: a URL whose request failed or was skipped has no Page; the failure ends
\* that branch only: a suspended caller is still in its link loop, and when the
\* crawl returns every internal link of every Page below max_depth whose own
\* processing raised no error has been crawled (requested once).
C7_FailureEndsBranchOnly ==
    /\ \A i \in FailedFetches : fetches[i].url \notin PageUrls
    /\ \A i \in DOMAIN stack : i < Len(stack) => stack[i].pc = "links"
    /\ crawlPc = "returned" =>
          \A i \in DOMAIN pages :
             (MayRecurse(pages[i].depth) /\ CrawlError(pages[i].url) \notin SeqToSet(errors))
                => \A l \in SeqToSet(InternalLinks(pages[i].links)) : FetchCount(l.url) = 1

C7_Witness ==
    /\ site = "diamond" /\ crawlPc = "returned" /\ config.max_depth = 1
    /\ \E i \in FailedFetches :
          fetches[i].url = Path("/b") /\ fetches[i].resp.status = 404
    /\ PageUrls = {Path("/"), Path("/c")}

\* C8: when the crawl returns, the error and warning lists hold at least one
\* entry per page request that failed or was skipped.
C8_FailuresRecorded ==
    crawlPc = "returned" => Len(errors) + Len(warnings) >= Cardinality(FailedFetches)

\* C9: at most max_concurrent frames hold a permit at any time.
C9_InFlightBounded == Cardinality(Holders) <= config.max_concurrent

C9_Witness ==
    /\ config.max_concurrent = 2
    /\ Cardinality(Holders) = 2
    /\ InFlight # {}

\* C10: sibling recursions are held back by nothing but the admission gate:
\* while a page request is in flight below a page that has another unvisited
\* internal link to crawl, and a permit is free, the crawl of that link can start.
C10_SiblingsBoundedOnlyByGate ==
    \A i \in DOMAIN stack :
        ( /\ NextLink(i) # <<>>
          /\ ~AlreadyVisited(NextLink(i)[1].url)
          /\ \E j \in InFlight : j > i
          /\ semaphore > 0 )
        => ENABLED CrawlInternalLinks(i)

\* What the code does instead: never more than one page request in flight.
OneFetchAtATime == Cardinality(InFlight) <= 1

\* number of entries of CrawlResult.errors about a URL
ErrorCount(u) == Cardinality({i \in DOMAIN errors : errors[i].url = u})

\* the step in which save_page fails in the running frame (line 102 or 129)
PersistFails ==
    /\ stack # <<>>
    /\ Running.pc \in {"save", "resave"}
    /\ Len(stack') = Len(stack)
    /\ stack'[Len(stack)].pc = "release"

\* C11: a failing save_page appends exactly one error entry for the page,
\* leaves the SiteMap and the suspended callers as they are and does not end
\* the crawl; no URL ever has more than one error entry, and a Page once in
\* the SiteMap stays there.
C11_PersistFailureRecorded ==
    /\ [](\A i \in DOMAIN errors : ErrorCount(errors[i].url) = 1)
    /\ [][ /\ PersistFails =>
                /\ errors' = Append(errors, CrawlError(Running.url))
                /\ pages' = pages
                /\ crawlPc' = crawlPc
                /\ SubSeq(stack', 1, Len(stack) - 1) = SubSeq(stack, 1, Len(stack) - 1)
            /\ \A i \in DOMAIN pages :
                  i \in DOMAIN pages' /\ pages'[i].url = pages[i].url ]_vars

C11_Witness ==
    /\ site = "chain" /\ crawlPc = "returned"
    /\ Path("/b") \in PageUrls
    /\ errors = <<CrawlError(Path("/b"))>>

\* the asset downloads that raised (request, read or save_asset)
FailedAssets ==
    {i \in DOMAIN asset_log : asset_log[i].outcome \in {"get_raises", "save_raises"}}

\* The part of C12 the code keeps: a failed asset leaves its page in the
\* SiteMap, and once the crawl returns the page's internal links were crawled
\* unless the page's own save failed.
AssetFailureKeepsPage ==
    \A i \in FailedAssets :
        /\ asset_log[i].page \in PageUrls
        /\ (crawlPc = "returned" /\ ErrorCount(asset_log[i].page) = 0) =>
              \A k \in DOMAIN pages :
                 (pages[k].url = asset_log[i].page /\ MayRecurse(pages[k].depth)) =>
                    \A l \in SeqToSet(InternalLinks(pages[k].links)) : FetchCount(l.url) = 1

\* C12: when the crawl returns, every asset download that failed has an entry
\* in errors or warnings (about the asset or its page), and its page was kept
\* and its internal links crawled.
C12_AssetFailureRecorded ==
    crawlPc = "returned" =>
       /\ \A i \in FailedAssets :
             \E e \in SeqToSet(errors) \cup SeqToSet(warnings) :
                e.url \in {asset_log[i].url, asset_log[i].page}
       /\ AssetFailureKeepsPage

\* C13: once crawl() has returned the result is finalized: completed_at is
\* set and the statistics agree with the pages, errors and warnings held at
\* that time and at every later time (nothing is added after finalization).
C13_ResultFinalized ==
    crawlPc = "returned" =>
       /\ completed_at
       /\ statistics.total_pages = Len(pages)
       /\ statistics.errors = Len(errors)
       /\ statistics.warnings = Len(warnings)

C13_Witness ==
    /\ crawlPc = "returned"
    /\ completed_at
    /\ Len(pages) >= 2
    /\ statistics.errors = 1

\* every Link extracted so far: attached to a page or held by a running frame
ExtractedLinks ==
    UNION {SeqToSet(pages[i].links) : i \in DOMAIN pages}
       \cup UNION {SeqToSet(stack[i].links) : i \in DOMAIN stack}

OnBaseHost(u) == Lower(u.host) = Lower(StartUrl.host)

C14_ValidateRaisesExactly ==
    Returned("validate") =>
       LET c == call.args[1]
           r == call.out[1]
       IN  /\ (r.raised # "") <=>
                  \/ c.crawler.max_depth < 1
                  \/ c.crawler.delay < 0
                  \/ c.crawler.max_concurrent < 1
                  \/ c.storage.max_file_size < 0
           /\ c = DefaultConfig => r.raised = ""
           /\ r.self = c

C14_Witness ==
    /\ Returned("validate")
    /\ call.args[1].crawler.max_depth = 0
    /\ call.args[1].crawler.delay = 0
    /\ call.args[1].crawler.max_concurrent = 1
    /\ call.out[1].raised # ""

\* C15: from_dict(to_dict(c)) equals c in every field of the crawler, storage
\* and analysis sections.
C15_DictRoundTrip ==
    (call.op = "to_dict" /\ Len(call.out) = 2) =>
       \A section \in {"crawler", "storage", "analysis"} :
          /\ DOMAIN call.out[2][section] = DOMAIN call.args[1][section]
          /\ \A f \in DOMAIN call.args[1][section] :
                call.out[2][section][f] = call.args[1][section][f]

C15_Witness ==
    /\ call.op = "to_dict"
    /\ Len(call.out) = 2
    /\ call.args[1].crawler.max_retries # DefaultCrawler.max_retries
    /\ call.out[2].crawler.max_retries = call.args[1].crawler.max_retries

\* C16: normalizing the result of normalize_url(u, b) against the same base
\* b gives that result again.
C16_NormalizeIdempotent ==
    (call.op = "normalize_url" /\ Len(call.out) = 2) => call.out[2] = call.out[1]

C19_SimilarityReflexive ==
    (Returned("page_similarity") /\ call.args[1] = call.args[2]) =>
       /\ \A k \in DOMAIN call.out[1].scores : call.out[1].scores[k] = One
       /\ call.out[1].similarity = One
       /\ RSum([i \in 1..Len(ScoreOrder) |-> Weights[ScoreOrder[i]]]) = One

C19_Witness ==
    /\ Returned("page_similarity")
    /\ call.args[1] = call.args[2]
    /\ call.args[1].tag_structure = <<>>
    /\ call.args[1].class_patterns = <<>>
    /\ call.args[1].component_count = 0
    /\ call.args[1].content_structure.text_length = 0
    /\ call.out[1].similarity = One

\* C20: the similarity matrix of n signatures has n rows of n entries, is
\* symmetric, has 1.0 on its diagonal and every entry within [0, 1].
C20_MatrixWellFormed ==
    Returned("similarity_matrix") =>
       LET n == Len(call.args[1])
           m == call.out[1]
       IN  /\ Len(m) = n
           /\ \A i \in 1..n :
                 /\ Len(m[i]) = n
                 /\ m[i][i] = One
                 /\ \A j \in 1..n :
                       /\ m[i][j] = m[j][i]
                       /\ RLeq(Zero, m[i][j])
                       /\ RLeq(m[i][j], One)

C20_Witness ==
    /\ Returned("similarity_matrix")
    /\ Len(call.out[1]) = MaxPages
    /\ call.out[1][1][1] = One
    /\ call.out[1][1][2] \notin {Zero, One}
    /\ call.out[1][2][1] = call.out[1][1][2]

\* the step in which _download_page answers the request of the running frame
PageRequested ==
    /\ AtPc("download")
    /\ Len(fetches') = Len(fetches) + 1
    /\ Len(stack') = Len(stack)

\* C27: a response becomes a Page exactly when its status is in 200..299 and
\* its content type is HTML (and the request did not raise).
C27_PageIffSuccessHtml ==
    [][ PageRequested =>
          LET resp == fetches'[Len(fetches')].resp
          IN  (stack'[Len(stack)].page # <<>>) <=>
                 /\ ~resp.raises
                 /\ resp.status \in 200..299
                 /\ resp.ctype = "text/html" ]_vars

\* C28: with delay > 0 at least one pacing sleep lies between any two
\* consecutive page requests, so the requests issued so far never outnumber
\* the sleeps taken by more than one.
C28_SleepBetweenRequests ==
    config.delay > 0 => Len(fetches) <= sleeps + 1

\* C30: the free permits stay within 0..max_concurrent, and once crawl() has
\* returned every permit is free again.
C30_PermitsReleased ==
    /\ semaphore \in 0..config.max_concurrent
    /\ crawlPc = "returned" => semaphore = config.max_concurrent

C30_Witness ==
    /\ crawlPc = "returned"
    /\ semaphore = config.max_concurrent
    /\ FailedFetches # {}
    /\ errors # <<>>
    /\ Len(pages) >= 2

\* the step in which _crawl_page returns at line 85 because of the depth
Rejected ==
    /\ AtPc("entry")
    /\ Running.depth > config.max_depth
    /\ stack' = Return

\* C29: a call rejected for its depth changes neither the visited set, the
\* SiteMap nor the error list (its URL is not recorded and can be admitted by
\* a later call), and no step ever removes a URL from the visited set.
C29_RejectionLeavesNoTrace ==
    [][ /\ Rejected =>
             /\ visited_urls' = visited_urls
             /\ Running.url \notin visited_urls'
             /\ pages' = pages
             /\ errors' = errors
        /\ visited_urls \subseteq visited_urls' ]_vars

C29_Witness ==
    /\ crawlPc = "traversing"
    /\ stack = <<>>
    /\ visited_urls = {}
    /\ fetches = <<>>

\* sum of the values a function takes on a finite set
RECURSIVE SumOver(_, _)
SumOver(S, term) ==
    IF S = {} THEN Zero
    ELSE LET x == CHOOSE y \in S : TRUE
         IN  RAdd(term[x], SumOver(S \ {x}, term))

\* the reference definition of dict-similarity
ReferenceDictSimilarity(d1, d2) ==
    LET common == DOMAIN d1 \cap DOMAIN d2
        jaccard == Rat(Cardinality(common), Cardinality(DOMAIN d1 \cup DOMAIN d2))
        closeness ==
            [k \in common |->
                Rat(Max(d1[k], d2[k]) - Abs(d1[k] - d2[k]), Max(d1[k], d2[k]))]
    IN  CASE DOMAIN d1 = {} /\ DOMAIN d2 = {} -> One
          [] (DOMAIN d1 = {}) # (DOMAIN d2 = {}) -> Zero
          [] DOMAIN d1 # {} /\ DOMAIN d2 # {} /\ common = {} -> RMul(jaccard, Rat(1, 2))
          [] OTHER ->
               RAdd(RMul(jaccard, Rat(3, 10)),
                    RMul(RMul(SumOver(common, closeness), Rat(1, Cardinality(common))),
                         Rat(7, 10)))

\* C21: dict-similarity equals the reference definition on frequency
\* mappings with positive counts, and it is 1.0 exactly when the two
\* mappings are equal.
C21_DictSimilarityReference ==
    Returned("dict_similarity") =>
       /\ call.out[1] = ReferenceDictSimilarity(call.args[1], call.args[2])
       /\ (call.out[1] = One) <=> (call.args[1] = call.args[2])

C21_Witness ==
    /\ Returned("dict_similarity")
    /\ DOMAIN call.args[1] \cap DOMAIN call.args[2] # {}
    /\ DOMAIN call.args[1] # DOMAIN call.args[2]
    /\ \E k \in DOMAIN call.args[1] \cap DOMAIN call.args[2] :
          call.args[1][k] # call.args[2][k]
    /\ call.out[1] \notin {Zero, One}

\* C26: a layout signature has no repeated letter, and two documents get
\* equal signatures exactly when the same landmark kinds are present in both.
C26_LayoutSignatureDistinguishes ==
    Returned("layout_signature") =>
       /\ \A i, j \in DOMAIN call.out[1] : call.out[1][i] = call.out[1][j] => i = j
       /\ (call.out[1] = call.out[2]) <=> (call.args[1] = call.args[2])

\* C22: clustering fewer than two pages returns the empty result: no
\* cluster, an empty similarity matrix, no recommendation.
C22_FewPagesEmptyResult ==
    (Returned("cluster_pages") /\ Len(call.args[1]) < 2) =>
       /\ call.out[1].clusters = <<>>
       /\ call.out[1].similarity_matrix = <<>>
       /\ call.out[1].recommendations = <<>>

C22_Witness ==
    /\ Returned("cluster_pages")
    /\ Len(call.args[1]) = 1
    /\ call.out[1].similarity_matrix = <<>>

\* ------------------------------------------------- clustering, claim side
\* the pages of cluster k of a clustering result (a page is named by its URL,
\* which is its place in the input)
ClusterMembers(result, k) == {result.clusters[k][m].url : m \in DOMAIN result.clusters[k]}

Clustered(result) == UNION {ClusterMembers(result, k) : k \in DOMAIN result.clusters}

\* two different pages the matrix puts at the threshold or above
Near(matrix, threshold, i, j) == i # j /\ RLeq(threshold, matrix[i][j])

\* the transitive closure of a relation: pairs are composed until no new
\* pair appears
RECURSIVE TransitiveClosure(_)
TransitiveClosure(R) ==
    LET composed ==
            R \cup UNION {{<<p[1], q[2]>> : q \in {r \in R : r[1] = p[2]}} : p \in R}
    IN  IF composed = R THEN R ELSE TransitiveClosure(composed)

\* the pairs of pages joined by a chain of pages whose consecutive
\* similarities reach the threshold
Chained(matrix, threshold) ==
    TransitiveClosure({p \in (DOMAIN matrix) \X (DOMAIN matrix) :
                          Near(matrix, threshold, p[1], p[2])})

\* mean similarity over the ordered pairs of different pages of a set
MeanPairwise(matrix, members) ==
    LET pairs == {p \in members \X members : p[1] # p[2]}
    IN  RMul(SumOver(pairs, [p \in pairs |-> matrix[p[1]][p[2]]]),
             Rat(1, Cardinality(pairs)))

ClusteredAtLeastTwo == Returned("cluster_pages") /\ Len(call.args[1]) >= 2

\* C23: for pages with distinct URLs and any threshold the clusters are
\* pairwise disjoint, every cluster has at least two members, a page with no
\* other page at the threshold or above is in no cluster, and there is
\* exactly one recommendation per cluster, whose page_count is the size of
\* that cluster.
C23_ClustersDisjointAndRecommended ==
    ClusteredAtLeastTwo =>
       LET result == call.out[1]
           isolated == {i \in DOMAIN call.args[1] :
                           \A j \in DOMAIN call.args[1] :
                              ~Near(result.similarity_matrix, call.args[2], i, j)}
       IN  /\ \A k1, k2 \in DOMAIN result.clusters :
                k1 # k2 => ClusterMembers(result, k1) \cap ClusterMembers(result, k2) = {}
           /\ \A k \in DOMAIN result.clusters :
                /\ Len(result.clusters[k]) >= 2
                /\ Cardinality(ClusterMembers(result, k)) = Len(result.clusters[k])
           /\ isolated \cap Clustered(result) = {}
           /\ Len(result.recommendations) = Len(result.clusters)
           /\ \A k \in DOMAIN result.recommendations :
                /\ result.recommendations[k].cluster = k - 1
                /\ result.recommendations[k].page_count = Len(result.clusters[k])

C23_Witness ==
    /\ ClusteredAtLeastTwo
    /\ Len(call.out[1].clusters) = 2
    /\ Len(call.out[1].recommendations) = 2
    /\ Clustered(call.out[1]) # DOMAIN call.args[1]
    /\ \E k \in DOMAIN call.out[1].clusters : Len(call.out[1].clusters[k]) = 2

\* C24: a page is noise exactly when no other page has similarity >= the
\* threshold to it; two clustered pages are in the same cluster exactly when
\* a chain of pages with consecutive similarities >= the threshold joins
\* them; and five pages of which three are mutually above 0.8 and two are
\* below 0.8 to every other page give, at 0.8, one cluster of the three with
\* mean similarity above 0.8 and two noise pages.
C24_NoiseAndChains ==
    ClusteredAtLeastTwo =>
       LET result == call.out[1]
           matrix == result.similarity_matrix
           threshold == call.args[2]
           all == DOMAIN call.args[1]
           noise == all \ Clustered(result)
           chained == Chained(matrix, threshold)
           Together(i, j) ==
               \E k \in DOMAIN result.clusters :
                  i \in ClusterMembers(result, k) /\ j \in ClusterMembers(result, k)
       IN  /\ \A i \in all :
                i \in noise <=> \A j \in all : ~Near(matrix, threshold, i, j)
           /\ \A i, j \in Clustered(result) :
                i # j => (Together(i, j) <=> <<i, j>> \in chained)
           /\ \A three \in SUBSET all :
                (/\ Len(call.args[1]) = 5
                 /\ threshold = Rat(8, 10)
                 /\ Cardinality(three) = 3
                 /\ \A i, j \in three : i # j => RLess(threshold, matrix[i][j])
                 /\ \A i \in all \ three : \A j \in all \ {i} :
                       RLess(matrix[i][j], threshold))
                => /\ Len(result.clusters) = 1
                   /\ ClusterMembers(result, 1) = three
                   /\ Len(result.clusters[1]) = 3
                   /\ RLess(Rat(8, 10), MeanPairwise(matrix, three))
                   /\ Cardinality(noise) = 2

\* a cluster held together only by a chain: two of its pages are below the
\* threshold to each other
C24_Witness ==
    /\ ClusteredAtLeastTwo
    /\ \E k \in DOMAIN call.out[1].clusters :
          \E i, j \in ClusterMembers(call.out[1], k) :
             i # j /\ ~Near(call.out[1].similarity_matrix, call.args[2], i, j)

\* C25: the template recommendation of a cluster has priority high exactly
\* when the mean pairwise similarity of the cluster's pages is strictly
\* greater than 0.9, and medium otherwise.
C25_PriorityHighIffMeanAbove ==
    (call.op = "cluster_pages" /\ Len(call.out) = 2) =>
       \A k \in DOMAIN call.out[2] :
          LET members == ClusterMembers(call.out[1], call.out[2][k].details.cluster + 1)
              mean == MeanPairwise(call.out[1].similarity_matrix, members)
          IN  /\ call.out[2][k].priority \in {"high", "medium"}
              /\ call.out[2][k].priority = "high" <=> RLess(Rat(9, 10), mean)

====
